---- MODULE Spec2Model ----
(***************************************************************************)
(* State-machine model of stream_mapping_mono_input_tracks.py: main()      *)
(* provisions the remote resources of one encoding in a fixed order, the   *)
(* two audio mixes are assembled by _create_audio_mix_input_stream, and    *)
(* _execute_encoding starts the job and polls its status.                  *)
(*                                                                         *)
(* Every blocking remote call is two steps: the request is issued (it is   *)
(* appended to trace and put in inflight) and the call returns, either     *)
(* with a resource carrying a fresh id or by raising.  Python strings that *)
(* are inspected character-wise (paths) are sequences of one-character     *)
(* strings, so that os.path.join is computed as posixpath computes it.     *)
(*                                                                         *)
(* The polling loop has no bound in the program.  trace records its first  *)
(* MaxPolls rounds exactly; a run that polls on sets overrun and leaves    *)
(* trace as it is, so the loop stays a loop over finitely many states.     *)
(***************************************************************************)
EXTENDS Integers, Sequences, FiniteSets, TLC

VARIABLES
    pc,            \* statement of main() being executed, or how the run ended
    fpc,           \* position inside the function that statement called
    base_path,     \* config_provider.get_s3_output_base_path()
    EXAMPLE_NAME,  \* module-level EXAMPLE_NAME (line 50)
    loc,           \* main()'s local variables: name -> id of the resource held
    frame,         \* locals of the running _create_audio_mix_input_stream call
    task,          \* _execute_encoding's local `task`
    inflight,      \* requests issued and not yet returned
    created,       \* the remote service's resources, in creation order
    trace,         \* every effect of the run, in order: calls, sleeps, prints
    failures,      \* number of remote calls that raised
    overrun        \* TRUE once the polling loop has run past MaxPolls rounds

vars == <<pc, fpc, base_path, EXAMPLE_NAME, loc, frame, task, inflight,
          created, trace, failures, overrun>>

(***************************************************************************)
(* Bounds of the model.                                                    *)
(***************************************************************************)
\* polling rounds whose effects are recorded in trace
MaxPolls == 3
\* longest message list attached to a task
MaxMsgs == 2
\* longest mapping table handed to the assembler in SpecMix
MaxTable == 2

(***************************************************************************)
(* Strings as sequences of characters.                                     *)
(***************************************************************************)
SEP == <<"/">>

StrOutputs == <<"/", "o", "u", "t", "p", "u", "t", "s">>

StrS3BasePath == <<"/", "s", "3", "/", "b", "a", "s", "e", "/", "p", "a", "t", "h">>

\* the base paths the configuration may hold
BasePaths == {StrOutputs, StrS3BasePath}

ExamplePrefix ==
    <<"S", "t", "r", "e", "a", "m", "M", "a", "p", "p", "i", "n", "g",
      "M", "o", "n", "o", "I", "n", "p", "u", "t", "T", "r", "a", "c", "k", "s", "-">>

\* datetime.now().isoformat(timespec='seconds')
IsoStamps ==
    { <<"2", "0", "2", "0", "-", "0", "1", "-", "0", "2", "T",
        "0", "3", ":", "0", "4", ":", "0", "5">> }

ExampleNames == { ExamplePrefix \o s : s \in IsoStamps }

\* "stereo-and-surround-tracks-mapped.mp4"
MuxingFileName ==
    <<"s", "t", "e", "r", "e", "o", "-", "a", "n", "d", "-",
      "s", "u", "r", "r", "o", "u", "n", "d", "-",
      "t", "r", "a", "c", "k", "s", "-", "m", "a", "p", "p", "e", "d",
      ".", "m", "p", "4">>

startswith(s, prefix) ==
    /\ Len(s) >= Len(prefix)
    /\ SubSeq(s, 1, Len(prefix)) = prefix

endswith(s, suffix) ==
    /\ Len(s) >= Len(suffix)
    /\ SubSeq(s, Len(s) - Len(suffix) + 1, Len(s)) = suffix

\* one round of posixpath.join's loop: path joined with the next component b
join2(path, b) ==
    IF startswith(b, SEP) THEN b
    ELSE IF path = <<>> \/ endswith(path, SEP) THEN path \o b
    ELSE path \o SEP \o b

\* os.path.join(a, *p): the components folded left to right
RECURSIVE join(_)
join(parts) ==
    IF Len(parts) = 1 THEN parts[1]
    ELSE join2(join(SubSeq(parts, 1, Len(parts) - 1)), parts[Len(parts)])

\* _build_absolute_path(relative_path)
build_absolute_path(relative_path) ==
    join(<<base_path, EXAMPLE_NAME, relative_path>>)

(***************************************************************************)
(* Values of the SDK's enums and the request objects the helpers build.    *)
(***************************************************************************)
None == "None"

NonTerminalStatuses == {"QUEUED", "RUNNING"}

\* bitmovin_api_sdk.Status, as far as the program tells its values apart
Statuses == NonTerminalStatuses \cup {"FINISHED", "ERROR"}

\* bitmovin_api_sdk.Message values: two of type ERROR and one of another type
Messages ==
    { [type |-> "ERROR", text |-> "bad input"],
      [type |-> "ERROR", text |-> "no audio"],
      [type |-> "INFO", text |-> "ignored"] }

\* the message lists a Task may carry
MessageLists == UNION { [1..n -> Messages] : n \in 0..MaxMsgs }

ChannelMappingConfig(output_channel_type, source_channel_number) ==
    [output_channel_type |-> output_channel_type,
     source_channel_number |-> source_channel_number]

\* main(): stereo_map
stereo_mapSwapped ==
    << ChannelMappingConfig("FRONT_RIGHT", 0),
       ChannelMappingConfig("FRONT_LEFT", 1) >>

stereo_map ==
    << ChannelMappingConfig("FRONT_LEFT", 0),
       ChannelMappingConfig("FRONT_RIGHT", 1) >>

\* main(): surround_map
surround_map ==
    << ChannelMappingConfig("FRONT_LEFT", 2),
       ChannelMappingConfig("FRONT_RIGHT", 3),
       ChannelMappingConfig("BACK_LEFT", 4),
       ChannelMappingConfig("BACK_RIGHT", 5),
       ChannelMappingConfig("CENTER", 6),
       ChannelMappingConfig("LOW_FREQUENCY", 7) >>

\* config_provider.get_http_input_file_path_with_multiple_mono_audio_tracks()
input_file_path == "HTTP_INPUT_FILE_PATH_MULTIPLE_MONO_AUDIO_TRACKS"

Request(op, encoding_id, body) ==
    [op |-> op, encoding_id |-> encoding_id, body |-> body]

create_encoding(name, description) ==
    Request("encodings.create", None,
            [name |-> name, description |-> description])

create_http_input(host) ==
    Request("inputs.http.create", None, [host |-> host])

create_s3_output(bucket_name, access_key, secret_key) ==
    Request("outputs.s3.create", None,
            [bucket_name |-> bucket_name, access_key |-> access_key,
             secret_key |-> secret_key])

create_h264_video_configuration ==
    Request("configurations.video.h264.create", None,
            [name |-> "H.264 1080p @ 1.5 Mbit/S", height |-> 1080,
             bitrate |-> 1500000, preset_configuration |-> "VOD_STANDARD"])

create_aac_audio_configuration ==
    Request("configurations.audio.aac.create", None,
            [name |-> "AAC Audio @ 128 kbit/s", bitrate |-> 128000])

create_dd_surround_audio_configuration ==
    Request("configurations.audio.dolby_digital.create", None,
            [name |-> "Dolby Digital Channel Layout 5.1", bitrate |-> 256000,
             channel_layout |-> "CL_5_1"])

create_ingest_input_stream(encoding, input, input_path) ==
    Request("input_streams.ingest.create", encoding,
            [input_id |-> input, input_path |-> input_path,
             selection_mode |-> "AUTO", position |-> None])

create_ingest_input_stream_for_audio_track(encoding, input, input_path, position) ==
    Request("input_streams.ingest.create", encoding,
            [input_id |-> input, input_path |-> input_path,
             selection_mode |-> "AUDIO_RELATIVE", position |-> position])

create_stream(encoding, input_stream, codec_configuration) ==
    Request("streams.create", encoding,
            [input_streams |-> << [input_stream_id |-> input_stream] >>,
             codec_config_id |-> codec_configuration,
             mode |-> "STANDARD"])

build_encoding_output(output, output_path) ==
    [output_path |-> build_absolute_path(output_path),
     output_id |-> output,
     acl |-> << [permission |-> "PUBLIC_READ"] >>]

\* _create_mp4_muxing, were the streams added in reverse order
create_mp4_muxingReversed(encoding, output, output_path, streams, file_name) ==
    Request("muxings.mp4.create", encoding,
            [outputs |-> << build_encoding_output(output, output_path) >>,
             filename |-> file_name,
             streams |-> [k \in 1..Len(streams) |->
                            [stream_id |-> streams[Len(streams) + 1 - k]]]])

create_mp4_muxing(encoding, output, output_path, streams, file_name) ==
    Request("muxings.mp4.create", encoding,
            [outputs |-> << build_encoding_output(output, output_path) >>,
             filename |-> file_name,
             streams |-> [k \in 1..Len(streams) |-> [stream_id |-> streams[k]]]])

\* AudioMixInputStreamSourceChannel(type_=CHANNEL_NUMBER, channel_number=0)
AudioMixInputStreamSourceChannel ==
    [type_ |-> "CHANNEL_NUMBER", channel_number |-> 0]

\* the output_channel, were every assignment given the video ingest
AudioMixInputStreamChannelOfVideo(input_stream_id, output_channel_type) ==
    [input_stream_id |-> loc.video_ingest_input_stream,
     output_channel_type |-> output_channel_type,
     source_channels |-> << AudioMixInputStreamSourceChannel >>]

\* the output_channel built in one round of the assembler's loop
AudioMixInputStreamChannel(input_stream_id, output_channel_type) ==
    [input_stream_id |-> input_stream_id,
     output_channel_type |-> output_channel_type,
     source_channels |-> << AudioMixInputStreamSourceChannel >>]

\* the assignment inserted at the front of the list instead of appended
append_channelAtFront(audio_mix_input_stream, output_channel) ==
    [audio_mix_input_stream EXCEPT
        !.audio_mix_channels = << output_channel >> \o @]

\* audio_mix_input_stream.audio_mix_channels.append(output_channel)
append_channel(audio_mix_input_stream, output_channel) ==
    [audio_mix_input_stream EXCEPT
        !.audio_mix_channels = Append(@, output_channel)]

create_audio_mix(encoding, audio_mix_input_stream) ==
    Request("input_streams.audio_mix.create", encoding, audio_mix_input_stream)

start(encoding_id) == Request("encodings.start", encoding_id, None)

status(encoding_id) == Request("encodings.status", encoding_id, None)

(***************************************************************************)
(* main(): its statements in program order.                                *)
(***************************************************************************)
\* main() with the surround mix assembled before the stereo mix
MainOrderSurroundFirst ==
    << "encoding", "http_input", "output", "h264_config", "aac_config",
       "dd_config", "video_ingest_input_stream", "surround_mix_input_stream",
       "stereo_mix_input_stream", "video_stream", "audio_stream1",
       "audio_stream2", "muxing", "execute" >>

\* main() with the three streams created before the two mixes
MainOrderStreamsFirst ==
    << "encoding", "http_input", "output", "h264_config", "aac_config",
       "dd_config", "video_ingest_input_stream", "video_stream", "audio_stream1",
       "audio_stream2", "stereo_mix_input_stream", "surround_mix_input_stream",
       "muxing", "execute" >>

MainOrder ==
    << "encoding", "http_input", "output", "h264_config", "aac_config",
       "dd_config", "video_ingest_input_stream", "stereo_mix_input_stream",
       "surround_mix_input_stream", "video_stream", "audio_stream1",
       "audio_stream2", "muxing", "execute" >>

\* statements that call _create_audio_mix_input_stream
MixStmts == {"stereo_mix_input_stream", "surround_mix_input_stream"}

\* statements that make one creation call
SimpleStmts == { MainOrder[k] : k \in 1..Len(MainOrder) } \ (MixStmts \cup {"execute"})

\* main()'s local variables
Locals == { MainOrder[k] : k \in 1..Len(MainOrder) } \ {"muxing", "execute"}

\* where a statement's callee starts
Entry(stmt) ==
    IF stmt \in MixStmts THEN "enter"
    ELSE IF stmt = "execute" THEN "start"
    ELSE "call"

\* the statement main() executes after stmt
NextStmt(stmt) ==
    LET k == CHOOSE j \in 1..Len(MainOrder) : MainOrder[j] = stmt
    IN  MainOrder[k + 1]

\* the request of a single-call statement of main(), from its locals
StmtRequest(stmt) ==
    CASE stmt = "encoding" ->
            create_encoding("Audio Mapping - Stream Mapping - Multiple Mono Tracks",
                "Input with multiple mono tracks -> Output with stereo and surround tracks")
      [] stmt = "http_input" -> create_http_input("HTTP_INPUT_HOST")
      [] stmt = "output" ->
            create_s3_output("S3_OUTPUT_BUCKET_NAME", "S3_OUTPUT_ACCESS_KEY",
                             "S3_OUTPUT_SECRET_KEY")
      [] stmt = "h264_config" -> create_h264_video_configuration
      [] stmt = "aac_config" -> create_aac_audio_configuration
      [] stmt = "dd_config" -> create_dd_surround_audio_configuration
      [] stmt = "video_ingest_input_stream" ->
            create_ingest_input_stream(loc.encoding, loc.http_input, input_file_path)
      [] stmt = "video_stream" ->
            create_stream(loc.encoding, loc.video_ingest_input_stream, loc.h264_config)
      [] stmt = "audio_stream1" ->
            create_stream(loc.encoding, loc.stereo_mix_input_stream, loc.aac_config)
      [] stmt = "audio_stream2" ->
            create_stream(loc.encoding, loc.surround_mix_input_stream, loc.dd_config)
      [] stmt = "muxing" ->
            create_mp4_muxing(loc.encoding, loc.output, SEP,
                << loc.video_stream, loc.audio_stream1, loc.audio_stream2 >>,
                MuxingFileName)

\* the arguments main() passes to _create_audio_mix_input_stream
MixArgs(stmt) ==
    IF stmt = "stereo_mix_input_stream"
    THEN [channel_layout |-> "CL_STEREO", mapping_configs |-> stereo_map]
    ELSE [channel_layout |-> "CL_5_1_BACK", mapping_configs |-> surround_map]

\* _create_audio_mix_input_stream's locals on entry
NewFrame(encoding, input, path, channel_layout, mapping_configs) ==
    [encoding |-> encoding, input |-> input, input_file_path |-> path,
     mapping_configs |-> mapping_configs, i |-> 1,
     audio_mix_input_stream |->
        [channel_layout |-> channel_layout, audio_mix_channels |-> <<>>],
     result |-> 0]

\* no call of _create_audio_mix_input_stream is running
NoFrame == NewFrame(0, 0, None, None, <<>>)

NoTask == [status |-> None, messages |-> <<>>]

(***************************************************************************)
(* The remote service and the trace of effects.                            *)
(***************************************************************************)
\* the identifier the service gives the next resource
FreshId == Len(created) + 1

Resource(id, req) == [id |-> id, req |-> req]

CallEvent(req) == <<"call", req>>

SleepEvent(seconds) == <<"sleep", seconds>>

PrintEvent(line) == <<"print", line>>

\* the exception a failed remote call raises
RaiseEvent(req) == <<"raise", req>>

\* trace with the events appended; frozen once the polling loop overran
Record(events) == IF overrun THEN trace ELSE trace \o events

IsCall(e, op) == e[1] = "call" /\ e[2].op = op

IsSleep(e) == e[1] = "sleep"

IsRaise(e) == e[1] = "raise"

IsPrint(e, kind) == e[1] = "print" /\ e[2][1] = kind

\* a blocking call is issued: the caller waits at fpc = wait
Issue(req, wait) ==
    /\ inflight' = Append(inflight, req)
    /\ trace' = Record(<< CallEvent(req) >>)
    /\ fpc' = wait

(***************************************************************************)
(* main(): the statements that make one creation call.                     *)
(***************************************************************************)
MainCall(stmt) ==
    /\ pc = stmt
    /\ stmt \in SimpleStmts
    /\ fpc = "call"
    /\ Issue(StmtRequest(stmt), "wait")
    /\ UNCHANGED <<pc, base_path, EXAMPLE_NAME, loc, frame, task, created,
                   failures, overrun>>

\* the creation call returns the created resource; main() binds it and goes on
MainReturn(stmt) ==
    /\ pc = stmt
    /\ stmt \in SimpleStmts
    /\ fpc = "wait"
    /\ inflight /= <<>>
    /\ created' = Append(created, Resource(FreshId, Head(inflight)))
    /\ inflight' = Tail(inflight)
    /\ loc' = IF stmt \in Locals THEN [loc EXCEPT ![stmt] = FreshId] ELSE loc
    /\ pc' = NextStmt(stmt)
    /\ fpc' = Entry(NextStmt(stmt))
    /\ UNCHANGED <<base_path, EXAMPLE_NAME, frame, task, trace, failures, overrun>>

\* a remote call raises: nothing in the program catches it, main() is left
\* a remote call raises and the caller issues it once more
RemoteCallRaisesRetried ==
    /\ fpc \in {"wait", "ingest_wait", "mix_wait", "start_wait", "status_wait"}
    /\ inflight /= <<>>
    /\ failures = 0
    /\ failures' = failures + 1
    /\ trace' = Record(<< RaiseEvent(Head(inflight)), CallEvent(Head(inflight)) >>)
    /\ UNCHANGED <<pc, fpc, base_path, EXAMPLE_NAME, loc, frame, task, inflight,
                   created, overrun>>

RemoteCallRaises ==
    /\ fpc \in {"wait", "ingest_wait", "mix_wait", "start_wait", "status_wait"}
    /\ inflight /= <<>>
    /\ inflight' = Tail(inflight)
    /\ failures' = failures + 1
    /\ trace' = Record(<< RaiseEvent(Head(inflight)) >>)
    /\ pc' = "aborted"
    /\ fpc' = "exit"
    /\ UNCHANGED <<base_path, EXAMPLE_NAME, loc, frame, task, created, overrun>>

(***************************************************************************)
(* _create_audio_mix_input_stream                                          *)
(***************************************************************************)
\* main() calls the assembler with one of its two tables
MixEnter(stmt) ==
    /\ pc = stmt
    /\ stmt \in MixStmts
    /\ fpc = "enter"
    /\ frame' = NewFrame(loc.encoding, loc.http_input, input_file_path,
                         MixArgs(stmt).channel_layout, MixArgs(stmt).mapping_configs)
    /\ fpc' = "loop"
    /\ UNCHANGED <<pc, base_path, EXAMPLE_NAME, loc, task, inflight, created,
                   trace, failures, overrun>>

\* for mapping_config in mapping_configs: request the entry's ingest
MixIngestCall ==
    /\ fpc = "loop"
    /\ frame.i <= Len(frame.mapping_configs)
    /\ Issue(create_ingest_input_stream_for_audio_track(
                frame.encoding, frame.input, frame.input_file_path,
                frame.mapping_configs[frame.i].source_channel_number),
             "ingest_wait")
    /\ UNCHANGED <<pc, base_path, EXAMPLE_NAME, loc, frame, task, created,
                   failures, overrun>>

\* the ingest is created; its assignment is appended to the mix
MixIngestReturn ==
    /\ fpc = "ingest_wait"
    /\ inflight /= <<>>
    /\ created' = Append(created, Resource(FreshId, Head(inflight)))
    /\ inflight' = Tail(inflight)
    /\ frame' = [frame EXCEPT
            !.audio_mix_input_stream = append_channel(@,
                AudioMixInputStreamChannel(FreshId,
                    frame.mapping_configs[frame.i].output_channel_type)),
            !.i = @ + 1]
    /\ fpc' = "loop"
    /\ UNCHANGED <<pc, base_path, EXAMPLE_NAME, loc, task, trace, failures, overrun>>

\* after the loop: submit the mixed stream
MixCreateCall ==
    /\ fpc = "loop"
    /\ frame.i > Len(frame.mapping_configs)
    /\ Issue(create_audio_mix(frame.encoding, frame.audio_mix_input_stream),
             "mix_wait")
    /\ UNCHANGED <<pc, base_path, EXAMPLE_NAME, loc, frame, task, created,
                   failures, overrun>>

\* the mixed stream is created and returned to the caller
MixCreateReturn ==
    /\ fpc = "mix_wait"
    /\ inflight /= <<>>
    /\ created' = Append(created, Resource(FreshId, Head(inflight)))
    /\ inflight' = Tail(inflight)
    /\ frame' = [frame EXCEPT !.result = FreshId]
    /\ fpc' = "ret"
    /\ UNCHANGED <<pc, base_path, EXAMPLE_NAME, loc, task, trace, failures, overrun>>

\* main() binds the returned mixed stream and goes on
MixExit(stmt) ==
    /\ pc = stmt
    /\ stmt \in MixStmts
    /\ fpc = "ret"
    /\ loc' = [loc EXCEPT ![stmt] = frame.result]
    /\ frame' = NoFrame
    /\ pc' = NextStmt(stmt)
    /\ fpc' = Entry(NextStmt(stmt))
    /\ UNCHANGED <<base_path, EXAMPLE_NAME, task, inflight, created, trace,
                   failures, overrun>>

(***************************************************************************)
(* _execute_encoding, _wait_for_enoding_to_finish, _log_task_errors        *)
(***************************************************************************)
\* time.sleep(5)
SleepSeconds == 5

\* polling rounds begun so far, as far as trace records them
Rounds == Len(SelectSeq(trace, IsSleep))

\* the while condition, were RUNNING the only status polled on
keeps_pollingOnlyRunning(t) == t.status = "RUNNING"

\* the while condition, were FINISHED the only status that ends the loop
keeps_pollingUntilFinished(t) == t.status /= "FINISHED"

\* the while condition: the status is neither FINISHED nor ERROR
keeps_polling(t) == t.status /= "FINISHED" /\ t.status /= "ERROR"

\* _log_task_errors without its filter on the message type
log_task_errorsUnfiltered(t) ==
    IF t = NoTask THEN <<>>
    ELSE [k \in 1..Len(t.messages) |-> PrintEvent(<<"message", t.messages[k].text>>)]

\* the lines _log_task_errors prints for a task
log_task_errors(t) ==
    IF t = NoTask THEN <<>>
    ELSE LET is_error(x) == x.type = "ERROR"
             filtered == SelectSeq(t.messages, is_error)
         IN  [k \in 1..Len(filtered) |-> PrintEvent(<<"message", filtered[k].text>>)]

\* bitmovin_api.encoding.encodings.start(encoding_id=encoding.id)
ExecStartCall ==
    /\ pc = "execute"
    /\ fpc = "start"
    /\ Issue(start(loc.encoding), "start_wait")
    /\ UNCHANGED <<pc, base_path, EXAMPLE_NAME, loc, frame, task, created,
                   failures, overrun>>

ExecStartReturn ==
    /\ fpc = "start_wait"
    /\ inflight /= <<>>
    /\ inflight' = Tail(inflight)
    /\ fpc' = "sleep"
    /\ UNCHANGED <<pc, base_path, EXAMPLE_NAME, loc, frame, task, created, trace,
                   failures, overrun>>

\* _wait_for_enoding_to_finish without its sleep
WaitSleepSkipped ==
    /\ fpc = "sleep"
    /\ fpc' = "status"
    /\ UNCHANGED <<pc, base_path, EXAMPLE_NAME, loc, frame, task, inflight,
                   created, trace, failures, overrun>>

\* _wait_for_enoding_to_finish: time.sleep(5)
WaitSleep ==
    /\ fpc = "sleep"
    /\ IF ~overrun /\ Rounds < MaxPolls
       THEN trace' = Record(<< SleepEvent(SleepSeconds) >>) /\ overrun' = overrun
       ELSE trace' = trace /\ overrun' = TRUE
    /\ fpc' = "status"
    /\ UNCHANGED <<pc, base_path, EXAMPLE_NAME, loc, frame, task, inflight,
                   created, failures>>

\* _wait_for_enoding_to_finish: the status request is issued
WaitStatusCall ==
    /\ fpc = "status"
    /\ Issue(status(loc.encoding), "status_wait")
    /\ UNCHANGED <<pc, base_path, EXAMPLE_NAME, loc, frame, task, created,
                   failures, overrun>>

\* the service answers with a task, which is printed and returned
WaitStatusReturn(s, messages) ==
    /\ fpc = "status_wait"
    /\ inflight /= <<>>
    /\ inflight' = Tail(inflight)
    /\ task' = [status |-> s, messages |-> messages]
    /\ trace' = Record(<< PrintEvent(<<"status", s>>) >>)
    /\ fpc' = "check"
    /\ UNCHANGED <<pc, base_path, EXAMPLE_NAME, loc, frame, created, failures,
                   overrun>>

\* while task.status is not FINISHED and not ERROR: poll again
ExecLoop ==
    /\ fpc = "check"
    /\ keeps_polling(task)
    /\ fpc' = "sleep"
    /\ UNCHANGED <<pc, base_path, EXAMPLE_NAME, loc, frame, task, inflight,
                   created, trace, failures, overrun>>

\* if task.status is ERROR: log the task's errors and raise
ExecError ==
    /\ fpc = "check"
    /\ ~keeps_polling(task)
    /\ task.status = "ERROR"
    /\ trace' = Record(log_task_errors(task))
    /\ pc' = "failed"
    /\ fpc' = "exit"
    /\ UNCHANGED <<base_path, EXAMPLE_NAME, loc, frame, task, inflight, created,
                   failures, overrun>>

\* print("Encoding finished successfully") and return
ExecFinish ==
    /\ fpc = "check"
    /\ ~keeps_polling(task)
    /\ task.status /= "ERROR"
    /\ trace' = Record(<< PrintEvent(<<"success", "Encoding finished successfully">>) >>)
    /\ pc' = "done"
    /\ fpc' = "exit"
    /\ UNCHANGED <<base_path, EXAMPLE_NAME, loc, frame, task, inflight, created,
                   failures, overrun>>

(***************************************************************************)
(* The program: one run of main().                                         *)
(***************************************************************************)
Init ==
    /\ pc = MainOrder[1]
    /\ fpc = Entry(MainOrder[1])
    /\ base_path \in BasePaths
    /\ EXAMPLE_NAME \in ExampleNames
    /\ loc = [v \in Locals |-> 0]
    /\ frame = NoFrame
    /\ task = NoTask
    /\ inflight = <<>>
    /\ created = <<>>
    /\ trace = <<>>
    /\ failures = 0
    /\ overrun = FALSE

Next ==
    \/ \E stmt \in SimpleStmts : MainCall(stmt)
    \/ \E stmt \in SimpleStmts : MainReturn(stmt)
    \/ RemoteCallRaises
    \/ \E stmt \in MixStmts : MixEnter(stmt)
    \/ MixIngestCall
    \/ MixIngestReturn
    \/ MixCreateCall
    \/ MixCreateReturn
    \/ \E stmt \in MixStmts : MixExit(stmt)
    \/ ExecStartCall
    \/ ExecStartReturn
    \/ WaitSleep
    \/ WaitStatusCall
    \/ \E s \in Statuses, messages \in MessageLists : WaitStatusReturn(s, messages)
    \/ ExecLoop
    \/ ExecError
    \/ ExecFinish

Spec == Init /\ [][Next]_vars

\* the job eventually reports a terminal status
TerminalReply ==
    \E s \in {"FINISHED", "ERROR"}, messages \in MessageLists :
        WaitStatusReturn(s, messages)

\* every blocking step returns, and the job eventually reports a terminal status
LiveSpec == Spec /\ WF_vars(Next) /\ SF_vars(TerminalReply)

(***************************************************************************)
(* One call of _create_audio_mix_input_stream on any mapping table.        *)
(***************************************************************************)
\* the channel roles and source positions the tables are drawn from
TableRoles == {"FRONT_LEFT", "FRONT_RIGHT", "CENTER"}

TablePositions == {0, 1}

MappingTables ==
    UNION { [1..n -> { ChannelMappingConfig(r, p) : r \in TableRoles, p \in TablePositions }]
            : n \in 0..MaxTable }

\* the caller holds an encoding (id 1) and an input (id 2) created before
InitMix ==
    /\ pc = "caller"
    /\ fpc = "loop"
    /\ base_path = StrOutputs
    /\ EXAMPLE_NAME = ExamplePrefix
    /\ loc = [v \in Locals |-> IF v = "encoding" THEN 1 ELSE IF v = "http_input" THEN 2 ELSE 0]
    /\ \E layout \in {"CL_STEREO", "CL_5_1_BACK"}, table \in MappingTables :
            frame = NewFrame(1, 2, input_file_path, layout, table)
    /\ task = NoTask
    /\ inflight = <<>>
    /\ created = << Resource(1, StmtRequest("encoding")),
                    Resource(2, StmtRequest("http_input")) >>
    /\ trace = <<>>
    /\ failures = 0
    /\ overrun = FALSE

NextMix ==
    \/ MixIngestCall
    \/ MixIngestReturn
    \/ MixCreateCall
    \/ MixCreateReturn
    \/ RemoteCallRaises

SpecMix == InitMix /\ [][NextMix]_vars

(***************************************************************************)
(* What the trace shows of the job lifecycle.                              *)
(***************************************************************************)
IsStatusCall(e) == IsCall(e, "encodings.status")

IsStatusPrint(e) == IsPrint(e, "status")

IsMessagePrint(e) == IsPrint(e, "message")

IsSuccessPrint(e) == IsPrint(e, "success")

\* the status requests issued so far
Polls == SelectSeq(trace, IsStatusCall)

\* the statuses the service has answered so far, in order
StatusSeq ==
    LET prints == SelectSeq(trace, IsStatusPrint)
    IN  [k \in 1..Len(prints) |-> prints[k][2][2]]

Terminal == {"FINISHED", "ERROR"}

\* position in trace of the last printed status (0 if none)
LastStatusAt ==
    LET at == { k \in 1..Len(trace) : IsStatusPrint(trace[k]) }
    IN  IF at = {} THEN 0 ELSE CHOOSE k \in at : \A j \in at : j <= k

\* what trace holds after the last printed status
AfterLastStatus == SubSeq(trace, LastStatusAt + 1, Len(trace))

\* the texts of the ERROR-typed messages among msgs[1..n], in message order
RECURSIVE ErrorTexts(_, _)
ErrorTexts(msgs, n) ==
    IF n = 0 THEN <<>>
    ELSE IF msgs[n].type = "ERROR"
         THEN Append(ErrorTexts(msgs, n - 1), msgs[n].text)
         ELSE ErrorTexts(msgs, n - 1)

\* C1: a status sequence of k-1 non-terminal statuses followed by FINISHED makes
\* the runner poll exactly k times, none after the FINISHED one, print the
\* success message, print no task message, and return without raising; a run
\* that returned saw exactly such a sequence.
C1_FinishedAfterExactlyKPolls ==
    LET S == StatusSeq
        k == Len(S)
    IN  /\ (~overrun /\ k >= 1 /\ S[k] = "FINISHED") =>
              /\ Len(Polls) = k
              /\ \A j \in 1..(k - 1) : S[j] \notin Terminal
              /\ pc \in {"execute", "done"}
              /\ pc = "execute" => (fpc = "check" /\ ENABLED ExecFinish
                                        /\ ~ENABLED ExecLoop /\ ~ENABLED ExecError)
              /\ pc = "done" =>
                    AfterLastStatus =
                        << PrintEvent(<<"success", "Encoding finished successfully">>) >>
              /\ \A j \in 1..Len(trace) : ~IsMessagePrint(trace[j])
              /\ failures = 0
        /\ (~overrun /\ pc = "done") => (k >= 1 /\ S[k] = "FINISHED")
        /\ (~overrun /\ S = <<"RUNNING", "RUNNING", "FINISHED">>) => Len(Polls) = 3

\* C1 witness: [RUNNING, RUNNING, FINISHED], with an ERROR message on the final task
C1_Witness ==
    /\ pc = "done"
    /\ ~overrun
    /\ StatusSeq = <<"RUNNING", "RUNNING", "FINISHED">>
    /\ Len(Polls) = 3
    /\ \E j \in 1..Len(task.messages) : task.messages[j].type = "ERROR"

\* C2: when the first terminal status is ERROR at poll k, the runner polls
\* exactly k times, then prints the text of every ERROR-typed message of that
\* task in message order and of no other message, then raises, and never prints
\* the success message.
C2_ErrorPrintsErrorMessagesAndRaises ==
    LET S == StatusSeq
        k == Len(S)
    IN  /\ (~overrun /\ k >= 1 /\ S[k] = "ERROR") =>
              /\ Len(Polls) = k
              /\ \A j \in 1..(k - 1) : S[j] \notin Terminal
              /\ task.status = "ERROR"
              /\ pc \in {"execute", "failed"}
              /\ pc = "execute" => (fpc = "check" /\ ENABLED ExecError
                                        /\ ~ENABLED ExecLoop /\ ~ENABLED ExecFinish)
              /\ pc = "failed" =>
                    LET texts == ErrorTexts(task.messages, Len(task.messages))
                    IN  AfterLastStatus =
                            [j \in 1..Len(texts) |-> PrintEvent(<<"message", texts[j]>>)]
              /\ pc = "execute" => \A j \in 1..Len(trace) : ~IsMessagePrint(trace[j])
              /\ \A j \in 1..Len(trace) : ~IsSuccessPrint(trace[j])
        /\ (~overrun /\ pc = "failed") => (k >= 1 /\ S[k] = "ERROR")

\* C2 witness: [RUNNING, ERROR] with messages [{ERROR, "bad input"}, {INFO, "ignored"}]
C2_Witness ==
    /\ pc = "failed"
    /\ ~overrun
    /\ StatusSeq = <<"RUNNING", "ERROR">>
    /\ Len(Polls) = 2
    /\ task.messages = << [type |-> "ERROR", text |-> "bad input"],
                          [type |-> "INFO", text |-> "ignored"] >>
    /\ AfterLastStatus = << PrintEvent(<<"message", "bad input">>) >>

(***************************************************************************)
(* What the trace shows of the stream assembly.                            *)
(***************************************************************************)
IsIngestCall(e) == IsCall(e, "input_streams.ingest.create")

IsAudioIngestCall(e) ==
    IsIngestCall(e) /\ e[2].body.selection_mode = "AUDIO_RELATIVE"

IsMixCall(e) == IsCall(e, "input_streams.audio_mix.create")

\* the remote resource with the given id
ResourceOf(id) == created[CHOOSE k \in 1..Len(created) : created[k].id = id]

HasResource(id) == \E k \in 1..Len(created) : created[k].id = id

\* C3: one call of _create_audio_mix_input_stream on a table of length N
\* (N = 0 included) issues exactly N ingest creation calls and then exactly one
\* mixed-stream creation call; the i-th assignment submitted carries the i-th
\* entry's output channel role and the ingest created for the i-th entry.
C3_AssemblyCallsAndOrder ==
    LET table == frame.mapping_configs
        N == Len(table)
    IN  /\ Len(SelectSeq(trace, IsIngestCall)) <= N
        /\ Len(SelectSeq(trace, IsMixCall)) <= 1
        /\ fpc = "ret" =>
              /\ Len(trace) = N + 1
              /\ \A i \in 1..N :
                    /\ IsAudioIngestCall(trace[i])
                    /\ trace[i][2].body.position = table[i].source_channel_number
              /\ IsMixCall(trace[N + 1])
              /\ LET channels == trace[N + 1][2].body.audio_mix_channels
                 IN  /\ Len(channels) = N
                     /\ \A i \in 1..N :
                           /\ channels[i].output_channel_type = table[i].output_channel_type
                           /\ HasResource(channels[i].input_stream_id)
                           /\ ResourceOf(channels[i].input_stream_id) = created[2 + i]
                           /\ created[2 + i].req = trace[i][2]
              /\ HasResource(frame.result)
              /\ ResourceOf(frame.result).req = trace[N + 1][2]

\* C3 witness: the call returned for a table of two entries that differ in role
\* and in source position
C3_Witness ==
    /\ fpc = "ret"
    /\ Len(frame.mapping_configs) = 2
    /\ frame.mapping_configs[1].output_channel_type
            /= frame.mapping_configs[2].output_channel_type
    /\ frame.mapping_configs[1].source_channel_number
            /= frame.mapping_configs[2].source_channel_number
    /\ Len(SelectSeq(trace, IsIngestCall)) = 2
    /\ Len(SelectSeq(trace, IsMixCall)) = 1

\* C3 witness for the empty table: no ingest call, one mixed-stream call
C3_WitnessEmpty ==
    /\ fpc = "ret"
    /\ frame.mapping_configs = <<>>
    /\ Len(trace) = 1

\* C4: the location of the muxing's output, the EncodingOutput path followed by
\* the file name, is {base_path}/{example_name}/stereo-and-surround-tracks-mapped.mp4.
C4_OutputLocation ==
    \A k \in 1..Len(trace) :
        IsCall(trace[k], "muxings.mp4.create") =>
            LET muxing == trace[k][2].body
            IN  /\ Len(muxing.outputs) = 1
                /\ join2(muxing.outputs[1].output_path, muxing.filename)
                      = base_path \o SEP \o EXAMPLE_NAME \o SEP \o MuxingFileName

IsStartCall(e) == IsCall(e, "encodings.start")

\* C5: the start request is issued exactly once and before any status request;
\* every status request is immediately preceded by its own 5-unit sleep, so
\* sleeps and status requests are equal in number; another sleep and poll
\* follow exactly when the status fetched last is neither FINISHED nor ERROR.
C5_LifecycleProtocolOrder ==
    LET n == Len(trace)
    IN  /\ Len(SelectSeq(trace, IsStartCall)) <= 1
        /\ (pc \in {"done", "failed"} \/ (pc = "execute" /\ fpc /= "start")) =>
              Len(SelectSeq(trace, IsStartCall)) = 1
        /\ \A k \in 1..n :
              /\ (IsSleep(trace[k]) \/ IsStatusCall(trace[k])) =>
                    \E j \in 1..(k - 1) : IsStartCall(trace[j])
              /\ IsStatusCall(trace[k]) =>
                    k > 1 /\ trace[k - 1] = SleepEvent(5)
              /\ IsSleep(trace[k]) =>
                    /\ trace[k] = SleepEvent(5)
                    /\ k < n => IsStatusCall(trace[k + 1])
                    /\ k > 1
                    /\ \/ IsStartCall(trace[k - 1])
                       \/ IsStatusPrint(trace[k - 1]) /\ trace[k - 1][2][2] \notin Terminal
              /\ IsStatusPrint(trace[k]) =>
                    /\ k > 1 /\ IsStatusCall(trace[k - 1])
                    /\ trace[k][2][2] \in Terminal =>
                          \A j \in (k + 1)..n : ~IsSleep(trace[j]) /\ ~IsStatusCall(trace[j])
                    /\ (trace[k][2][2] \notin Terminal /\ k < n) => IsSleep(trace[k + 1])
        /\ Rounds = Len(Polls) + (IF n > 0 /\ IsSleep(trace[n]) THEN 1 ELSE 0)
        /\ fpc = "check" => (ENABLED ExecLoop <=> task.status \notin Terminal)
        /\ fpc \in {"sleep", "status"} => (task = NoTask \/ task.status \notin Terminal)

\* C5 witness: two full rounds recorded, the second one ending the polling
C5_Witness ==
    /\ ~overrun
    /\ Rounds = 2
    /\ Len(Polls) = 2
    /\ Len(StatusSeq) = 2
    /\ StatusSeq[1] \notin Terminal
    /\ StatusSeq[2] \in Terminal
    /\ pc \in {"done", "failed"}

\* the runner returned or raised
Terminated == pc \in {"done", "failed", "aborted"}

\* C6: the runner terminates exactly when a poll returns FINISHED or ERROR.
\* If the job eventually reports a terminal status the run eventually ends; a
\* run that returned or raised "Encoding failed" fetched a terminal status; and
\* after a non-terminal status the only step is another round, whatever the
\* number of rounds so far, each sleeping the same 5 units.
C6_TerminatesIffTerminalStatus ==
    /\ <>Terminated
    /\ [](pc \in {"done", "failed"} => task.status \in Terminal)
    /\ []((fpc = "check" /\ task.status \notin Terminal) =>
              (ENABLED ExecLoop /\ ~ENABLED ExecFinish /\ ~ENABLED ExecError))
    /\ [](fpc = "sleep" => ENABLED WaitSleep)
    /\ [](\A k \in 1..Len(trace) : IsSleep(trace[k]) => trace[k][2] = 5)

\* C6 witness: a run that ended only after more rounds than the trace records
C6_Witness ==
    /\ overrun
    /\ pc \in {"done", "failed"}
    /\ Rounds = MaxPolls
    /\ \A k \in 1..Len(StatusSeq) : StatusSeq[k] \notin Terminal

(***************************************************************************)
(* Failures of remote calls.                                               *)
(***************************************************************************)
\* a call that creates a resource (every call but start and status)
IsCreationCall(e) ==
    e[1] = "call" /\ e[2].op \notin {"encodings.start", "encodings.status"}

IsCreationRequest(req) == req.op \notin {"encodings.start", "encodings.status"}

\* the creation calls that have not returned a resource: in flight, or raised
Unanswered ==
    Len(SelectSeq(inflight, IsCreationRequest))
        + (IF trace /= <<>> /\ IsRaise(trace[Len(trace)])
                /\ IsCreationRequest(trace[Len(trace)][2])
           THEN 1 ELSE 0)

\* C7: a failed remote call aborts the program at once: it is not issued again,
\* no remote call of any kind follows it (no cleanup, and no job start if the
\* failure comes before it), and the resources created before it stay as
\* they were.
C7_FailureAbortsRun ==
    /\ failures <= 1
    /\ failures = 1 => (pc = "aborted" /\ inflight = <<>> /\ ~ENABLED Next)
    /\ pc = "aborted" => failures = 1
    /\ ~overrun =>
          /\ \A k \in 1..Len(trace) :
                IsRaise(trace[k]) =>
                    /\ k = Len(trace)
                    /\ k > 1
                    /\ trace[k - 1] = CallEvent(trace[k][2])
                    /\ failures = 1
          /\ failures = 1 => IsRaise(trace[Len(trace)])
          /\ (failures = 1 /\ IsCreationRequest(trace[Len(trace)][2])) =>
                \A k \in 1..Len(trace) : ~IsStartCall(trace[k])
    /\ LET calls == SelectSeq(trace, IsCreationCall)
       IN  /\ Len(created) = Len(calls) - Unanswered
           /\ \A k \in 1..Len(created) :
                 created[k] = Resource(k, calls[k][2])

\* C7 witness: the ingest of the second stereo entry raised, after eight
\* resources had been created
C7_Witness ==
    /\ pc = "aborted"
    /\ failures = 1
    /\ IsRaise(trace[Len(trace)])
    /\ trace[Len(trace)][2].op = "input_streams.ingest.create"
    /\ trace[Len(trace)][2].body.selection_mode = "AUDIO_RELATIVE"
    /\ trace[Len(trace)][2].body.position = 1
    /\ Len(created) = 8

(***************************************************************************)
(* The two mixes main() assembles.                                         *)
(***************************************************************************)
\* the audio ingest and mixed-stream creation calls issued so far, in order
AssemblyCalls ==
    LET of_assembly(e) == IsAudioIngestCall(e) \/ IsMixCall(e)
    IN  SelectSeq(trace, of_assembly)

\* the source positions of the audio ingest requests issued so far, in order
IngestPositions ==
    LET calls == SelectSeq(trace, IsAudioIngestCall)
    IN  [k \in 1..Len(calls) |-> calls[k][2].body.position]

MixCalls == SelectSeq(trace, IsMixCall)

\* the roles a mixed-stream request assigns, in order
RolesOf(req) ==
    [k \in 1..Len(req.body.audio_mix_channels) |->
        req.body.audio_mix_channels[k].output_channel_type]

IsPrefix(s, t) == Len(s) <= Len(t) /\ s = SubSeq(t, 1, Len(s))

\* C8: the stereo table is [(front-left, 0), (front-right, 1)], submitted as
\* stereo, and the surround table is [(front-left, 2), (front-right, 3),
\* (back-left, 4), (back-right, 5), (center, 6), (low-frequency, 7)], submitted
\* as 5.1-back; the tables do not change while the assembler runs; the ingest
\* requests select positions 0,1 and then 2..7 in that order; every source
\* index is >= 0 and the roles are unique within each table.
C8_MappingTablesFixed ==
    /\ LET table == frame.mapping_configs
       IN  /\ \A i \in 1..Len(table) : table[i].source_channel_number >= 0
           /\ \A i, j \in 1..Len(table) :
                 table[i].output_channel_type = table[j].output_channel_type => i = j
    /\ IF pc = "stereo_mix_input_stream" /\ fpc /= "enter"
       THEN /\ frame.mapping_configs =
                  << [output_channel_type |-> "FRONT_LEFT", source_channel_number |-> 0],
                     [output_channel_type |-> "FRONT_RIGHT", source_channel_number |-> 1] >>
            /\ frame.audio_mix_input_stream.channel_layout = "CL_STEREO"
       ELSE IF pc = "surround_mix_input_stream" /\ fpc /= "enter"
       THEN /\ frame.mapping_configs =
                  << [output_channel_type |-> "FRONT_LEFT", source_channel_number |-> 2],
                     [output_channel_type |-> "FRONT_RIGHT", source_channel_number |-> 3],
                     [output_channel_type |-> "BACK_LEFT", source_channel_number |-> 4],
                     [output_channel_type |-> "BACK_RIGHT", source_channel_number |-> 5],
                     [output_channel_type |-> "CENTER", source_channel_number |-> 6],
                     [output_channel_type |-> "LOW_FREQUENCY", source_channel_number |-> 7] >>
            /\ frame.audio_mix_input_stream.channel_layout = "CL_5_1_BACK"
       ELSE frame = NoFrame \/ pc = "aborted"
    /\ IsPrefix(IngestPositions, <<0, 1, 2, 3, 4, 5, 6, 7>>)
    /\ Len(MixCalls) <= 2
    /\ Len(MixCalls) >= 1 =>
          /\ MixCalls[1][2].body.channel_layout = "CL_STEREO"
          /\ RolesOf(MixCalls[1][2]) = <<"FRONT_LEFT", "FRONT_RIGHT">>
    /\ Len(MixCalls) = 2 =>
          /\ MixCalls[2][2].body.channel_layout = "CL_5_1_BACK"
          /\ RolesOf(MixCalls[2][2]) =
                <<"FRONT_LEFT", "FRONT_RIGHT", "BACK_LEFT", "BACK_RIGHT",
                  "CENTER", "LOW_FREQUENCY">>

\* C8 witness: both mixes were submitted, after all eight ingest requests
C8_Witness ==
    /\ pc = "video_stream"
    /\ IngestPositions = <<0, 1, 2, 3, 4, 5, 6, 7>>
    /\ Len(MixCalls) = 2
    /\ loc.stereo_mix_input_stream /= 0
    /\ loc.surround_mix_input_stream /= 0

\* the ids the mixed-stream requests issued so far reference, in order
ReferencedIngests ==
    LET ids(k) == [i \in 1..Len(MixCalls[k][2].body.audio_mix_channels) |->
                      MixCalls[k][2].body.audio_mix_channels[i].input_stream_id]
    IN  IF Len(MixCalls) = 0 THEN <<>>
        ELSE IF Len(MixCalls) = 1 THEN ids(1)
        ELSE ids(1) \o ids(2)

\* C9: in every mixed-stream request each assignment has exactly one source
\* sub-channel, of type channel-number with index 0, and references the ingest
\* created for its own table entry; the service handing out fresh ids, no two
\* assignments of either table share an ingest and none references the video
\* ingest.
C9_AssignmentsReferenceOwnIngest ==
    /\ \A m \in 1..Len(trace) :
          IsMixCall(trace[m]) =>
              LET channels == trace[m][2].body.audio_mix_channels
                  N == Len(channels)
                  table == IF trace[m][2].body.channel_layout = "CL_STEREO"
                           THEN stereo_map ELSE surround_map
              IN  /\ N = Len(table)
                  /\ m > N
                  /\ \A i \in 1..N :
                        /\ channels[i].source_channels =
                              << [type_ |-> "CHANNEL_NUMBER", channel_number |-> 0] >>
                        /\ HasResource(channels[i].input_stream_id)
                        /\ IsAudioIngestCall(trace[m - N + i - 1])
                        /\ ResourceOf(channels[i].input_stream_id).req = trace[m - N + i - 1][2]
                        /\ ResourceOf(channels[i].input_stream_id).req.body.position
                              = table[i].source_channel_number
                        /\ channels[i].output_channel_type = table[i].output_channel_type
    /\ LET refs == ReferencedIngests
       IN  /\ \A i, j \in 1..Len(refs) : refs[i] = refs[j] => i = j
           /\ \A i \in 1..Len(refs) :
                 /\ refs[i] /= loc.video_ingest_input_stream
                 /\ ResourceOf(refs[i]).req.body.selection_mode = "AUDIO_RELATIVE"
    /\ \A i, j \in 1..Len(created) : created[i].id = created[j].id => i = j

\* C9 witness: both mixed-stream requests were issued, referencing 8 ingests
C9_Witness ==
    /\ Len(MixCalls) = 2
    /\ Len(ReferencedIngests) = 8
    /\ loc.video_ingest_input_stream /= 0

\* C10: the stereo mix is assembled completely, its two ingests and its mixed
\* stream created, before the first surround ingest is requested, and at most
\* one remote call is in flight at any time.
C10_AssembliesDoNotInterleave ==
    /\ Len(inflight) <= 1
    /\ LET calls == AssemblyCalls
           kinds == [k \in 1..Len(calls) |->
                        IF IsMixCall(calls[k])
                        THEN calls[k][2].body.channel_layout
                        ELSE IF calls[k][2].body.position \in {0, 1}
                        THEN "stereo ingest" ELSE "surround ingest"]
       IN  /\ IsPrefix(kinds,
                  <<"stereo ingest", "stereo ingest", "CL_STEREO",
                    "surround ingest", "surround ingest", "surround ingest",
                    "surround ingest", "surround ingest", "surround ingest",
                    "CL_5_1_BACK">>)
           /\ Len(calls) >= 4 =>
                 /\ loc.stereo_mix_input_stream /= 0
                 /\ HasResource(loc.stereo_mix_input_stream)
                 /\ ResourceOf(loc.stereo_mix_input_stream).req = calls[3][2]
                 /\ \A i \in 1..2 :
                       \E k \in 1..Len(created) : created[k].req = calls[i][2]

\* C10 witness: the first surround ingest request is in flight
C10_Witness ==
    /\ pc = "surround_mix_input_stream"
    /\ fpc = "ingest_wait"
    /\ Len(AssemblyCalls) = 4
    /\ Len(inflight) = 1
    /\ inflight[1].body.position = 2

(***************************************************************************)
(* The muxing main() submits.                                              *)
(***************************************************************************)
IsMuxingCall(e) == IsCall(e, "muxings.mp4.create")

MuxingCalls == SelectSeq(trace, IsMuxingCall)

\* the stream resource pairs an input stream of the given kind with a codec
\* configuration created by the given call
Pairs(stream_id, is_input(_), codec_op) ==
    /\ HasResource(stream_id)
    /\ LET stream == ResourceOf(stream_id).req
       IN  /\ stream.op = "streams.create"
           /\ Len(stream.body.input_streams) = 1
           /\ HasResource(stream.body.input_streams[1].input_stream_id)
           /\ is_input(ResourceOf(stream.body.input_streams[1].input_stream_id).req)
           /\ HasResource(stream.body.codec_config_id)
           /\ ResourceOf(stream.body.codec_config_id).req.op = codec_op

IsVideoIngest(req) ==
    req.op = "input_streams.ingest.create" /\ req.body.selection_mode = "AUTO"

IsStereoMix(req) ==
    req.op = "input_streams.audio_mix.create" /\ req.body.channel_layout = "CL_STEREO"

IsSurroundMix(req) ==
    req.op = "input_streams.audio_mix.create" /\ req.body.channel_layout = "CL_5_1_BACK"

\* C11: main() submits a single MP4 muxing; it lists exactly three streams, in
\* the order video, stereo audio, surround audio: the auto-selected video ingest
\* with the H.264 configuration, the stereo mix with the AAC configuration and
\* the 5.1 mix with the Dolby Digital configuration; it has exactly one output,
\* whose ACL is exactly one public-read entry.
C11_MuxingStreamsAndOutput ==
    /\ Len(MuxingCalls) <= 1
    /\ (pc \in {"execute", "done", "failed"}) => Len(MuxingCalls) = 1
    /\ \A k \in 1..Len(MuxingCalls) :
          LET muxing == MuxingCalls[k][2].body
          IN  /\ muxing.filename = MuxingFileName
              /\ Len(muxing.streams) = 3
              /\ Pairs(muxing.streams[1].stream_id, IsVideoIngest,
                       "configurations.video.h264.create")
              /\ Pairs(muxing.streams[2].stream_id, IsStereoMix,
                       "configurations.audio.aac.create")
              /\ Pairs(muxing.streams[3].stream_id, IsSurroundMix,
                       "configurations.audio.dolby_digital.create")
              /\ muxing.streams[1].stream_id = loc.video_stream
              /\ muxing.streams[2].stream_id = loc.audio_stream1
              /\ muxing.streams[3].stream_id = loc.audio_stream2
              /\ Len(muxing.outputs) = 1
              /\ muxing.outputs[1].output_id = loc.output
              /\ HasResource(muxing.outputs[1].output_id)
              /\ ResourceOf(muxing.outputs[1].output_id).req.op = "outputs.s3.create"
              /\ muxing.outputs[1].acl = << [permission |-> "PUBLIC_READ"] >>

\* C11 witness: the muxing was created and the job is about to be started
C11_Witness ==
    /\ pc = "execute"
    /\ fpc = "start"
    /\ Len(MuxingCalls) = 1
    /\ Len(created) = 21
    /\ created[21].req = MuxingCalls[1][2]

(***************************************************************************)
(* The order in which main() creates and uses resources.                   *)
(***************************************************************************)
CodecOps ==
    {"configurations.video.h264.create", "configurations.audio.aac.create",
     "configurations.audio.dolby_digital.create"}

\* the calls that take no encoding_id
UnscopedOps ==
    {"encodings.create", "inputs.http.create", "outputs.s3.create"} \cup CodecOps

InputStreamOps == {"input_streams.ingest.create", "input_streams.audio_mix.create"}

\* the identifiers a request carries, each with the calls that may have made it
Refs(req) ==
    (IF req.op \in UnscopedOps THEN {}
     ELSE { <<req.encoding_id, {"encodings.create"}>> })
    \cup
    (CASE req.op = "input_streams.ingest.create" ->
            { <<req.body.input_id, {"inputs.http.create"}>> }
       [] req.op = "input_streams.audio_mix.create" ->
            { <<req.body.audio_mix_channels[i].input_stream_id,
                {"input_streams.ingest.create"}>> :
              i \in 1..Len(req.body.audio_mix_channels) }
       [] req.op = "streams.create" ->
            { <<req.body.input_streams[i].input_stream_id, InputStreamOps>> :
              i \in 1..Len(req.body.input_streams) }
            \cup { <<req.body.codec_config_id, CodecOps>> }
       [] req.op = "muxings.mp4.create" ->
            { <<req.body.outputs[i].output_id, {"outputs.s3.create"}>> :
              i \in 1..Len(req.body.outputs) }
            \cup { <<req.body.streams[i].stream_id, {"streams.create"}>> :
                   i \in 1..Len(req.body.streams) }
       [] OTHER -> {})

\* the creation calls among the first k events of trace
CreationCallsUpTo(k) == Len(SelectSeq(SubSeq(trace, 1, k), IsCreationCall))

\* the id was returned by a creation call, of one of the given kinds, that was
\* issued and answered before the k-th event of trace
ReturnedBefore(id, ops, k) ==
    \E j \in 1..Len(created) :
        /\ created[j].id = id
        /\ created[j].req.op \in ops
        /\ j <= CreationCallsUpTo(k - 1)

\* the calls of the given kind issued so far
CountOp(op) ==
    LET is_op(e) == IsCall(e, op)
    IN  Len(SelectSeq(trace, is_op))

\* the creation calls one run of main() makes, by kind
ExpectedCreations ==
    [op \in {"encodings.create", "inputs.http.create", "outputs.s3.create",
             "muxings.mp4.create"} \cup CodecOps |-> 1]
    @@ ("input_streams.ingest.create" :> 9)
    @@ ("input_streams.audio_mix.create" :> 2)
    @@ ("streams.create" :> 3)

\* C12: every identifier placed in a request was returned by an earlier
\* successful creation call of the run; the encoding is the first resource
\* created; the job is started only after all 21 creation calls (1 encoding,
\* 1 input, 1 output, 3 codec configurations, 1 video ingest, 8 audio ingests,
\* 2 mixed streams, 3 streams, 1 muxing) have succeeded, each issued once, and
\* no creation call follows the start.
C12_DependencyOrder ==
    /\ \A k \in 1..Len(trace) :
          trace[k][1] = "call" =>
              \A ref \in Refs(trace[k][2]) : ReturnedBefore(ref[1], ref[2], k)
    /\ Len(created) >= 1 => created[1].req.op = "encodings.create"
    /\ trace /= <<>> => IsCall(trace[1], "encodings.create")
    /\ \A op \in DOMAIN ExpectedCreations : CountOp(op) <= ExpectedCreations[op]
    /\ LET positions == IngestPositions
       IN  \A i, j \in 1..Len(positions) : positions[i] = positions[j] => i = j
    /\ \A k \in 1..Len(trace) :
          IsStartCall(trace[k]) =>
              /\ CreationCallsUpTo(k) = 21
              /\ Len(created) = 21
              /\ \A op \in DOMAIN ExpectedCreations : CountOp(op) = ExpectedCreations[op]
              /\ Len(IngestPositions) = 8
              /\ \A j \in (k + 1)..Len(trace) : ~IsCreationCall(trace[j])

\* C12 witness: the job was started, after the 21 resources had been created
C12_Witness ==
    /\ pc = "execute"
    /\ fpc = "sleep"
    /\ Len(SelectSeq(trace, IsStartCall)) = 1
    /\ Len(created) = 21
    /\ failures = 0

====
